---- MODULE Spec2Model ----
(***************************************************************************)
(* Volume drivers for libvirt (nova/virt/libvirt/volume.py).               *)
(*                                                                         *)
(* The host (iscsiadm node records and sessions, by-path device nodes, the *)
(* block devices the hypervisor connection enumerates, the mount table) is *)
(* shared state; each thread of the process runs connect_volume and        *)
(* disconnect_volume calls of the five drivers, one external command or    *)
(* one filesystem check per step.                                          *)
(***************************************************************************)
EXTENDS Integers, Sequences, FiniteSets, TLC

VARIABLES
    CONF,           \* the configuration options read by the drivers
    self,           \* the driver object the callers share
    node,           \* iscsiadm node record of each target
    sessions,       \* targets with a logged-in session
    devices,        \* /dev/disk/by-path nodes that exist (os.path.exists)
    dirs,           \* directories that exist under nfs_mount_point_base
    mounts,         \* mount table: <<export, mount path>>
    locks,          \* holder of each named lock of lockutils.synchronized
    pc,             \* position of each thread in its current call
    call,           \* the call each thread is in or has last finished
    conf,           \* the LibvirtConfigGuestDisk under construction / returned
    tries,          \* local variable of the device-wait loop
    exc,            \* the exception the call ended with, if any
    log,            \* the commands and checks the call has made, with results
    lone            \* history: the call that has had the host to itself

vars == <<CONF, self, node, sessions, devices, dirs, mounts, locks,
          pc, call, conf, tries, exc, log, lone>>

hostVars == <<node, sessions, devices, dirs, mounts>>

-----------------------------------------------------------------------------
(* Bounds of the model *)

NumThreads == 2
NumLuns == 2
MaxScanTries == 2

Threads == 1..NumThreads
Luns == 0..(NumLuns - 1)

-----------------------------------------------------------------------------
(* Values *)

None == "None"
NoThread == 0

Targets == {[target_portal |-> "10.0.0.5:3260", target_iqn |-> "iqn.2010-10.org.example:vol1"]}

Exports == {"nfs-host:/export", "nfs-host:/export2"}

MountDevices == {"vdb"}

\* The named locks of the process.
LockNames == {"connect_volume", "disconnect_volume"}

\* An exit code of iscsiadm that no caller tolerates.
FatalCodes == {1}

\* "No records found": 21 after version 2.0-871, 255 before.
NotFoundCodes == {21, 255}

NodeKeys == {"node.startup", "node.session.auth.authmethod",
             "node.session.auth.username", "node.session.auth.password"}

\* The record "--op new" creates.
NewNode == [exists |-> TRUE,
            props |-> [k \in NodeKeys |->
                         IF k = "node.startup" THEN "manual" ELSE None]]

NoNode == [exists |-> FALSE, props |-> [k \in NodeKeys |-> None]]

-----------------------------------------------------------------------------
(* Connection descriptors *)

Get(d, k, default) == IF k \in DOMAIN d THEN d[k] ELSE default

AuthMethods == {None, "CHAP"}

\* data of an iSCSI descriptor; target_lun may be absent.
ISCSIDataNoLun ==
    {[target_portal |-> tg.target_portal, target_iqn |-> tg.target_iqn,
      auth_method |-> a, auth_username |-> "user", auth_password |-> "pass"] :
        tg \in Targets, a \in AuthMethods}

ISCSIData ==
    ISCSIDataNoLun \cup
    {d @@ [target_lun |-> l] : d \in ISCSIDataNoLun, l \in Luns}

ISCSIInfos == {[driver_volume_type |-> "iscsi", serial |-> "vol-1", data |-> d] :
                  d \in ISCSIData}

NFSInfos == {[driver_volume_type |-> "nfs", serial |-> "vol-1",
              data |-> [export |-> e, name |-> "vol.img"]] : e \in Exports}

LocalDevices == {"/dev/sdb"}

LocalInfos == {[driver_volume_type |-> "local", serial |-> "vol-1",
                data |-> [device_path |-> p]] : p \in LocalDevices}

FakeInfos == {[driver_volume_type |-> "fake", serial |-> "vol-1",
               data |-> [name |-> "fake"]]}

NetProtocols == {"rbd", "sheepdog"}

\* data of a network descriptor: the name alone, or the name and the auth
\* fields, auth_enabled absent, False or True.
NetDataAuth == [name |-> "pool/vol1", auth_username |-> "cinder",
                secret_type |-> "ceph", secret_uuid |-> "uuid-desc"]

NetData ==
    {[name |-> "pool/vol1"], NetDataAuth} \cup
    {NetDataAuth @@ [auth_enabled |-> a] : a \in BOOLEAN}

NetInfos == {[driver_volume_type |-> p, serial |-> "vol-1", data |-> d] :
                p \in NetProtocols, d \in NetData}

InfosOf(driver) ==
    CASE driver = "LibvirtISCSIVolumeDriver" -> ISCSIInfos
      [] driver = "LibvirtNFSVolumeDriver" -> NFSInfos
      [] driver = "LibvirtVolumeDriver" -> LocalInfos
      [] driver = "LibvirtFakeVolumeDriver" -> FakeInfos
      [] driver = "LibvirtNetVolumeDriver" -> NetInfos

Drivers == {"LibvirtISCSIVolumeDriver", "LibvirtNFSVolumeDriver",
            "LibvirtVolumeDriver", "LibvirtFakeVolumeDriver",
            "LibvirtNetVolumeDriver"}

Ops == {"connect_volume", "disconnect_volume"}

CallsOf(driver) == [op : Ops, connection_info : InfosOf(driver),
                    mount_device : MountDevices]

NoCall == [op |-> None]

TargetOf(iscsi_properties) ==
    [target_portal |-> iscsi_properties.target_portal,
     target_iqn |-> iscsi_properties.target_iqn]

-----------------------------------------------------------------------------
(* Paths *)

\* "/dev/disk/by-path/ip-%s-iscsi-%s-lun-" % (portal, iqn)
device_prefix(iscsi_properties) ==
    "/dev/disk/by-path/ip-" \o iscsi_properties.target_portal \o "-iscsi-" \o
    iscsi_properties.target_iqn \o "-lun-"

host_device_default_1(iscsi_properties) ==
    "/dev/disk/by-path/ip-" \o iscsi_properties.target_portal \o "-iscsi-" \o
    iscsi_properties.target_iqn \o "-lun-" \o
    ToString(Get(iscsi_properties, "target_lun", 1))

\* "/dev/disk/by-path/ip-%s-iscsi-%s-lun-%s" % (portal, iqn, lun or 0)
host_device(iscsi_properties) ==
    "/dev/disk/by-path/ip-" \o iscsi_properties.target_portal \o "-iscsi-" \o
    iscsi_properties.target_iqn \o "-lun-" \o
    ToString(Get(iscsi_properties, "target_lun", 0))

\* The by-path node udev creates for a LUN of a logged-in target.
ByPath(tg, l) ==
    "/dev/disk/by-path/ip-" \o tg.target_portal \o "-iscsi-" \o
    tg.target_iqn \o "-lun-" \o ToString(l)

AllByPath == {ByPath(tg, l) : tg \in Targets, l \in Luns}

\* dev.startswith(prefix): dev is the prefix followed by some rest; the rest
\* of a by-path name is a LUN number.
startswith(dev, prefix) == \E l \in Luns : dev = prefix \o ToString(l)

\* hashlib.md5(base_str).hexdigest(), for the exports of the model.
get_hash_str(base_str) ==
    CASE base_str = "nfs-host:/export" -> "32abefc2e639378a3f28f28319e71ab9"
      [] base_str = "nfs-host:/export2" -> "e89a42f7bcd70f8bd8de674def89cb9e"
      [] OTHER -> "d41d8cd98f00b204e9800998ecf8427e"

\* os.path.join(a, b)
os_path_join(a, b) == a \o "/" \o b

-----------------------------------------------------------------------------
(* The host, as the drivers' commands see and change it *)

Outcome(code, n, s) == [code |-> code, node |-> n, session |-> s]

\* iscsiadm -m node -T <iqn> -p <portal> <iscsi_command>: the exit codes the
\* command can end with in the current state of target tg, each with the
\* node record and login state it leaves.
iscsiadm(tg, iscsi_command) ==
    LET n == node[tg]
        s == tg \in sessions
        fatal == {Outcome(c, n, s) : c \in FatalCodes}
        notfound == {Outcome(c, n, s) : c \in NotFoundCodes}
    IN  fatal \cup
        CASE iscsi_command = <<>> ->
                IF n.exists THEN {Outcome(0, n, s)} ELSE notfound
          [] iscsi_command = <<"--op", "new">> ->
                {Outcome(0, IF n.exists THEN n ELSE NewNode, s)}
          [] Len(iscsi_command) = 6 ->
                IF n.exists
                THEN {Outcome(0, [n EXCEPT !.props[iscsi_command[4]] =
                                                iscsi_command[6]], s)}
                ELSE notfound
          [] iscsi_command = <<"--login">> ->
                IF ~n.exists THEN notfound
                ELSE IF s THEN {Outcome(255, n, s)}
                ELSE {Outcome(0, n, TRUE)}
          [] iscsi_command = <<"--logout">> ->
                IF s THEN {Outcome(0, n, FALSE)} ELSE notfound
          [] iscsi_command = <<"--op", "delete">> ->
                IF ~n.exists THEN notfound
                ELSE IF s THEN {}
                ELSE {Outcome(0, NoNode, s)}
          [] iscsi_command = <<"--rescan">> ->
                IF s THEN {Outcome(0, n, s)} ELSE notfound

\* self.connection.get_all_block_devices(): the answers the connection can
\* give, each a set of block device paths of the host.
get_all_block_devices == SUBSET (devices \cup LocalDevices)

\* os.path.exists(path)
os_path_exists(path) == path \in devices

\* virtutils.pick_disk_driver_name(is_block_dev)
pick_disk_driver_name(is_block_dev) == IF is_block_dev THEN "phy" ELSE "tap"

-----------------------------------------------------------------------------
(* Exceptions and results *)

NoExc == [type |-> None]

ProcessExecutionError(cmd, exit_code) ==
    [type |-> "ProcessExecutionError", cmd |-> cmd, exit_code |-> exit_code]

NovaException(message) == [type |-> "NovaException", message |-> message]

NoConf == [source_type |-> None]

Entry(cmd, code) == [cmd |-> cmd, code |-> code]

-----------------------------------------------------------------------------
(* Pieces shared by the steps *)

IsISCSI == self = "LibvirtISCSIVolumeDriver"
IsNFS == self = "LibvirtNFSVolumeDriver"

\* is_block_dev, as each driver's __init__ passes it to the base class.
is_block_dev(driver) ==
    driver \in {"LibvirtVolumeDriver", "LibvirtFakeVolumeDriver"}

\* LibvirtBaseVolumeDriver.connect_volume
BaseConnectVolume(driver, connection_info, mount_device) ==
    [driver_name |-> pick_disk_driver_name(is_block_dev(driver)),
     driver_format |-> "raw",
     driver_cache |-> "none",
     target_dev |-> mount_device,
     target_bus |-> "virtio",
     serial |-> Get(connection_info, "serial", None),
     source_type |-> None, source_path |-> None,
     source_protocol |-> None, source_host |-> None,
     auth_username |-> None, auth_secret_type |-> None,
     auth_secret_uuid |-> None]

ConnectOwnLockName == "disconnect_volume"

\* @lockutils.synchronized('connect_volume', 'nova-') on connect_volume
ConnectLockName == "connect_volume"

DisconnectOwnLockName == "disconnect_volume"

\* @lockutils.synchronized('connect_volume', 'nova-') on disconnect_volume
DisconnectLockName == "connect_volume"

LockNameOf(c) ==
    IF c.op = "connect_volume" THEN ConnectLockName ELSE DisconnectLockName

GenericErrorIgnored == {0, 1}

\* check_exit_code = kwargs.pop('check_exit_code', 0)
DefaultCheckExitCode == {0}

NewRecordOn255Only == {255}

\* if exc.exit_code in [21, 255]: run --op new
NewRecordExitCodes == {21, 255}

LoginStrict == {0}

\* check_exit_code=[0, 255] of --login
LoginCheckExitCode == {0, 255}

TeardownStrict == {0}

\* check_exit_code=[0, 21, 255] of the three teardown commands
TeardownCheckExitCode == {0, 21, 255}

\* The lock is given up when the decorated function is left.
Release(t) ==
    locks' = [n \in LockNames |-> IF locks[n] = t THEN NoThread ELSE locks[n]]

Return(t) ==
    /\ pc' = [pc EXCEPT ![t] = "done"]
    /\ Release(t)
    /\ UNCHANGED exc

RaiseHoldingLock(t, e) ==
    /\ pc' = [pc EXCEPT ![t] = "done"]
    /\ exc' = [exc EXCEPT ![t] = e]
    /\ UNCHANGED locks

Raise(t, e) ==
    /\ pc' = [pc EXCEPT ![t] = "done"]
    /\ exc' = [exc EXCEPT ![t] = e]
    /\ Release(t)

Goto(t, label) ==
    /\ pc' = [pc EXCEPT ![t] = label]
    /\ UNCHANGED <<exc, locks>>

Logged(t, cmd, code) == log' = [log EXCEPT ![t] = Append(@, Entry(cmd, code))]

TargetDevices(tg) == {ByPath(tg, l) : l \in Luns}

\* The effect of one iscsiadm run on the host: a logout removes the
\* target's device nodes.
Apply(tg, o) ==
    /\ node' = [node EXCEPT ![tg] = o.node]
    /\ sessions' = IF o.session THEN sessions \cup {tg} ELSE sessions \ {tg}
    /\ devices' = IF tg \in sessions /\ ~o.session
                  THEN devices \ TargetDevices(tg) ELSE devices

\* _run_iscsiadm: utils.execute raises ProcessExecutionError unless the exit
\* code is one of check_exit_code.
run_iscsiadm(t, iscsi_properties, iscsi_command, check_exit_code, next) ==
    \E o \in iscsiadm(TargetOf(iscsi_properties), iscsi_command) :
        /\ Apply(TargetOf(iscsi_properties), o)
        /\ Logged(t, iscsi_command, o.code)
        /\ IF o.code \in check_exit_code
           THEN IF next = "done" THEN Return(t) ELSE Goto(t, next)
           ELSE Raise(t, ProcessExecutionError(iscsi_command, o.code))

\* _iscsiadm_update
iscsiadm_update(t, iscsi_properties, property_key, property_value, check, next) ==
    run_iscsiadm(t, iscsi_properties,
                 <<"--op", "update", "-n", property_key, "-v", property_value>>,
                 check, next)

-----------------------------------------------------------------------------
(* Results *)

Finished(t) == pc[t] = "done"
Returned(t) == pc[t] = "done" /\ exc[t] = NoExc
Raised(t) == pc[t] = "done" /\ exc[t] # NoExc

\* The result of a finished call is local to its caller, who takes it before
\* the process takes its next step.
NoneFinished == \A u \in Threads : pc[u] # "done"

-----------------------------------------------------------------------------
(* History: a connect_volume started on a host with nothing of the volume's
   target or export, then the disconnect_volume of the same volume by the
   same caller, with no other call in between; and a connect_volume the
   process died in, then the same connect_volume called again in the
   restarted process before any other call *)

NoLone == [phase |-> None]

HostClean(c) ==
    CASE IsISCSI ->
            LET tg == TargetOf(c.connection_info.data)
            IN  /\ ~node[tg].exists
                /\ tg \notin sessions
                /\ devices \cap TargetDevices(tg) = {}
      [] IsNFS ->
            \A m \in mounts : m[1] # c.connection_info.data.export
      [] OTHER -> TRUE

LoneAtStart(t, c) ==
    IF /\ lone.phase = "crashed"
       /\ lone.thread = t
       /\ lone.call = c
       /\ \A u \in Threads \ {t} : pc[u] = "idle"
    THEN [lone EXCEPT !.phase = "retry"]
    ELSE IF /\ c.op = "connect_volume"
       /\ HostClean(c)
       /\ \A u \in Threads \ {t} : pc[u] = "idle"
    THEN [phase |-> "connect", thread |-> t, call |-> c]
    ELSE IF /\ c.op = "disconnect_volume"
            /\ lone.phase = "connected"
            /\ lone.thread = t
            /\ lone.call = [c EXCEPT !.op = "connect_volume"]
    THEN [lone EXCEPT !.phase = "disconnect"]
    ELSE NoLone

LoneAtCollect(t) ==
    IF lone.phase = "connect" /\ lone.thread = t /\ Returned(t)
    THEN [lone EXCEPT !.phase = "connected"]
    ELSE IF lone.phase # None /\ lone.thread = t
    THEN NoLone
    ELSE lone

-----------------------------------------------------------------------------
(* A caller invokes connect_volume or disconnect_volume of the driver, and
   takes its result *)

\* A method that is not synchronized starts at once.
CallStart(t, c) ==
    /\ NoneFinished
    /\ ~IsISCSI
    /\ pc[t] = "idle"
    /\ c \in CallsOf(self)
    /\ call' = [call EXCEPT ![t] = c]
    /\ pc' = [pc EXCEPT ![t] = "enter"]
    /\ lone' = LoneAtStart(t, c)
    /\ UNCHANGED <<CONF, self, hostVars, locks, conf, tries, exc, log>>

\* A synchronized method is entered through its wrapper, where the caller
\* waits for the lock. Nothing reads the arguments before the method's body
\* runs: they are drawn there.
CallWait(t, op) ==
    /\ NoneFinished
    /\ IsISCSI
    /\ pc[t] = "idle"
    /\ call' = [call EXCEPT ![t] = [op |-> op]]
    /\ pc' = [pc EXCEPT ![t] = "enter"]
    /\ lone' = IF lone.phase # None /\ lone.thread # t THEN NoLone ELSE lone
    /\ UNCHANGED <<CONF, self, hostVars, locks, conf, tries, exc, log>>

Collect(t) ==
    /\ pc[t] = "done"
    /\ pc' = [pc EXCEPT ![t] = "idle"]
    /\ call' = [call EXCEPT ![t] = NoCall]
    /\ conf' = [conf EXCEPT ![t] = NoConf]
    /\ exc' = [exc EXCEPT ![t] = NoExc]
    /\ tries' = [tries EXCEPT ![t] = 0]
    /\ log' = [log EXCEPT ![t] = <<>>]
    /\ lone' = LoneAtCollect(t)
    /\ UNCHANGED <<CONF, self, hostVars, locks>>

-----------------------------------------------------------------------------
(* LibvirtVolumeDriver, LibvirtFakeVolumeDriver, LibvirtNetVolumeDriver *)

At(t, driver, op, label) ==
    /\ NoneFinished
    /\ self = driver
    /\ pc[t] = label
    /\ call[t].op = op

LocalConnectVolume(connection_info, mount_device) ==
    [BaseConnectVolume("LibvirtVolumeDriver", connection_info, mount_device)
        EXCEPT !.source_type = "block",
               !.source_path = connection_info.data.device_path]

FakeConnectVolumeNoHost(connection_info, mount_device) ==
    [BaseConnectVolume("LibvirtFakeVolumeDriver", connection_info, mount_device)
        EXCEPT !.source_type = "network",
               !.source_protocol = "fake"]

FakeConnectVolume(connection_info, mount_device) ==
    [BaseConnectVolume("LibvirtFakeVolumeDriver", connection_info, mount_device)
        EXCEPT !.source_type = "network",
               !.source_protocol = "fake",
               !.source_host = "fake"]

\* a or b of Python, on values of which None is the only falsy one
Or(a, b) == IF a # None THEN a ELSE b

NetForcedAnyProtocol(connection_info) == CONF.rbd_secret_uuid # None

\* conf.source_protocol == 'rbd' and CONF.rbd_secret_uuid
NetForced(connection_info) ==
    connection_info.driver_volume_type = "rbd" /\ CONF.rbd_secret_uuid # None

\* auth_enabled, after "Force authentication locally"; an absent
\* auth_enabled is None, which is falsy.
NetAuthEnabled(connection_info) ==
    \/ NetForced(connection_info)
    \/ Get(connection_info.data, "auth_enabled", FALSE)

\* conf.auth_username before the "if auth_enabled:" block
NetLocalUsername(connection_info) ==
    IF NetForced(connection_info) THEN CONF.rbd_user ELSE None

\* conf.auth_secret_uuid before the "if auth_enabled:" block
NetLocalSecret(connection_info) ==
    IF NetForced(connection_info) THEN CONF.rbd_secret_uuid ELSE None

\* The first lookup netdisk_properties[key] of a key the descriptor lacks,
\* in the order the "if auth_enabled:" block makes them; `or` looks its
\* right side up only when the left is falsy.
NetKeyError(connection_info) ==
    LET d == connection_info.data
    IN  IF ~NetAuthEnabled(connection_info) THEN None
        ELSE IF NetLocalUsername(connection_info) = None
                /\ "auth_username" \notin DOMAIN d THEN "auth_username"
        ELSE IF "secret_type" \notin DOMAIN d THEN "secret_type"
        ELSE IF NetLocalSecret(connection_info) = None
                /\ "secret_uuid" \notin DOMAIN d THEN "secret_uuid"
        ELSE None

KeyError(key) == [type |-> "KeyError", key |-> key]

NetConnectVolume(connection_info, mount_device) ==
    LET base == BaseConnectVolume("LibvirtNetVolumeDriver", connection_info,
                                  mount_device)
        conf0 == [base EXCEPT !.source_type = "network",
                              !.source_protocol = connection_info.driver_volume_type,
                              !.source_host = connection_info.data.name]
        netdisk_properties == connection_info.data
        conf1 == [conf0 EXCEPT
                    !.auth_secret_uuid = NetLocalSecret(connection_info),
                    !.auth_username = NetLocalUsername(connection_info)]
    IN  IF NetAuthEnabled(connection_info)
        THEN [conf1 EXCEPT
                !.auth_username = Or(conf1.auth_username,
                                     netdisk_properties.auth_username),
                !.auth_secret_type = netdisk_properties.secret_type,
                !.auth_secret_uuid = Or(conf1.auth_secret_uuid,
                                        netdisk_properties.secret_uuid)]
        ELSE conf1

LocalConnect(t) ==
    /\ At(t, "LibvirtVolumeDriver", "connect_volume", "enter")
    /\ conf' = [conf EXCEPT ![t] =
                  LocalConnectVolume(call[t].connection_info, call[t].mount_device)]
    /\ Return(t)
    /\ UNCHANGED <<CONF, self, hostVars, call, tries, log, lone>>

FakeConnect(t) ==
    /\ At(t, "LibvirtFakeVolumeDriver", "connect_volume", "enter")
    /\ conf' = [conf EXCEPT ![t] =
                  FakeConnectVolume(call[t].connection_info, call[t].mount_device)]
    /\ Return(t)
    /\ UNCHANGED <<CONF, self, hostVars, call, tries, log, lone>>

NetConnect(t) ==
    /\ At(t, "LibvirtNetVolumeDriver", "connect_volume", "enter")
    /\ IF NetKeyError(call[t].connection_info) = None
       THEN /\ conf' = [conf EXCEPT ![t] =
                  NetConnectVolume(call[t].connection_info, call[t].mount_device)]
            /\ Return(t)
       ELSE /\ Raise(t, KeyError(NetKeyError(call[t].connection_info)))
            /\ UNCHANGED conf
    /\ UNCHANGED <<CONF, self, hostVars, call, tries, log, lone>>

\* LibvirtBaseVolumeDriver.disconnect_volume, which every driver but the
\* iSCSI one inherits unchanged: pass
BaseDisconnect(t) ==
    /\ NoneFinished
    /\ pc[t] = "enter"
    /\ call[t].op = "disconnect_volume"
    /\ ~IsISCSI
    /\ Return(t)
    /\ UNCHANGED <<CONF, self, hostVars, call, conf, tries, log, lone>>

-----------------------------------------------------------------------------
(* LibvirtISCSIVolumeDriver *)

Props(t) == call[t].connection_info.data

\* lockutils.synchronized: the caller waits until the named lock is free.
\* connect_volume then builds the base descriptor.
Acquire(t, c) ==
    /\ NoneFinished
    /\ pc[t] = "enter"
    /\ IsISCSI
    /\ c \in CallsOf(self)
    /\ c.op = call[t].op
    /\ locks[LockNameOf(c)] = NoThread
    /\ locks' = [locks EXCEPT ![LockNameOf(c)] = t]
    /\ call' = [call EXCEPT ![t] = c]
    /\ lone' = LoneAtStart(t, c)
    /\ IF c.op = "connect_volume"
       THEN /\ pc' = [pc EXCEPT ![t] = "query"]
            /\ conf' = [conf EXCEPT ![t] =
                  BaseConnectVolume("LibvirtISCSIVolumeDriver",
                                    c.connection_info, c.mount_device)]
       ELSE /\ pc' = [pc EXCEPT ![t] = "enumerate"]
            /\ UNCHANGED conf
    /\ UNCHANGED <<CONF, self, hostVars, tries, exc, log>>

AfterRecordNoAuth(iscsi_properties) == "login"

\* if iscsi_properties.get('auth_method'): ... else straight to --login
AfterRecord(iscsi_properties) ==
    IF Get(iscsi_properties, "auth_method", None) # None
    THEN "authmethod" ELSE "login"

\* try: self._run_iscsiadm(iscsi_properties, ())
\* except ProcessExecutionError: exit code 21 or 255 -> --op new, else raise
ConnectQuery(t) ==
    /\ At(t, "LibvirtISCSIVolumeDriver", "connect_volume", "query")
    /\ \E o \in iscsiadm(TargetOf(Props(t)), <<>>) :
        /\ Apply(TargetOf(Props(t)), o)
        /\ Logged(t, <<>>, o.code)
        /\ IF o.code \in DefaultCheckExitCode
           THEN Goto(t, AfterRecord(Props(t)))
           ELSE IF o.code \in NewRecordExitCodes
           THEN Goto(t, "new")
           ELSE Raise(t, ProcessExecutionError(<<>>, o.code))
    /\ UNCHANGED <<CONF, self, dirs, mounts, call, conf, tries, lone>>

ConnectNew(t) ==
    /\ At(t, "LibvirtISCSIVolumeDriver", "connect_volume", "new")
    /\ run_iscsiadm(t, Props(t), <<"--op", "new">>, DefaultCheckExitCode,
                    AfterRecord(Props(t)))
    /\ UNCHANGED <<CONF, self, dirs, mounts, call, conf, tries, lone>>

ConnectAuthMethod(t) ==
    /\ At(t, "LibvirtISCSIVolumeDriver", "connect_volume", "authmethod")
    /\ iscsiadm_update(t, Props(t), "node.session.auth.authmethod",
                       Props(t).auth_method, DefaultCheckExitCode, "username")
    /\ UNCHANGED <<CONF, self, dirs, mounts, call, conf, tries, lone>>

ConnectAuthUsername(t) ==
    /\ At(t, "LibvirtISCSIVolumeDriver", "connect_volume", "username")
    /\ iscsiadm_update(t, Props(t), "node.session.auth.username",
                       Props(t).auth_username, DefaultCheckExitCode, "password")
    /\ UNCHANGED <<CONF, self, dirs, mounts, call, conf, tries, lone>>

ConnectAuthPassword(t) ==
    /\ At(t, "LibvirtISCSIVolumeDriver", "connect_volume", "password")
    /\ iscsiadm_update(t, Props(t), "node.session.auth.password",
                       Props(t).auth_password, DefaultCheckExitCode, "login")
    /\ UNCHANGED <<CONF, self, dirs, mounts, call, conf, tries, lone>>

ConnectLogin(t) ==
    /\ At(t, "LibvirtISCSIVolumeDriver", "connect_volume", "login")
    /\ run_iscsiadm(t, Props(t), <<"--login">>, LoginCheckExitCode, "startup")
    /\ UNCHANGED <<CONF, self, dirs, mounts, call, conf, tries, lone>>

ConnectStartup(t) ==
    /\ At(t, "LibvirtISCSIVolumeDriver", "connect_volume", "startup")
    /\ iscsiadm_update(t, Props(t), "node.startup", "automatic",
                       DefaultCheckExitCode, "wait")
    /\ UNCHANGED <<CONF, self, dirs, mounts, call, conf, tries, lone>>

ExistsCode(path) == IF os_path_exists(path) THEN 0 ELSE 1

BudgetOverrun(n) == n > CONF.num_iscsi_scan_tries

\* if tries >= CONF.num_iscsi_scan_tries: raise
BudgetSpent(n) == n >= CONF.num_iscsi_scan_tries

BackoffLinear(n) == n

\* time.sleep(tries ** 2)
Backoff(n) == n * n

\* while not os.path.exists(host_device): budget spent -> raise, else rescan;
\* once the path exists: source_type, source_path, return conf
ConnectWait(t) ==
    /\ At(t, "LibvirtISCSIVolumeDriver", "connect_volume", "wait")
    /\ Logged(t, <<"os.path.exists", host_device(Props(t))>>,
              ExistsCode(host_device(Props(t))))
    /\ IF os_path_exists(host_device(Props(t)))
       THEN /\ conf' = [conf EXCEPT ![t].source_type = "block",
                                    ![t].source_path = host_device(Props(t))]
            /\ Return(t)
       ELSE /\ IF BudgetSpent(tries[t])
               THEN Raise(t, NovaException("iSCSI device not found at " \o
                                           host_device(Props(t))))
               ELSE Goto(t, "rescan")
            /\ UNCHANGED conf
    /\ UNCHANGED <<CONF, self, hostVars, call, tries, lone>>

\* self._run_iscsiadm(iscsi_properties, ("--rescan",)); tries = tries + 1
ConnectRescan(t) ==
    /\ At(t, "LibvirtISCSIVolumeDriver", "connect_volume", "rescan")
    /\ run_iscsiadm(t, Props(t), <<"--rescan">>, DefaultCheckExitCode, "recheck")
    /\ tries' = [tries EXCEPT ![t] = IF pc'[t] = "recheck" THEN @ + 1 ELSE @]
    /\ UNCHANGED <<CONF, self, dirs, mounts, call, conf, lone>>

\* if not os.path.exists(host_device): time.sleep(tries ** 2)
ConnectRecheck(t) ==
    /\ At(t, "LibvirtISCSIVolumeDriver", "connect_volume", "recheck")
    /\ log' = [log EXCEPT ![t] =
         LET checked == Append(@, Entry(<<"os.path.exists", host_device(Props(t))>>,
                                        ExistsCode(host_device(Props(t)))))
         IN  IF os_path_exists(host_device(Props(t)))
             THEN checked
             ELSE Append(checked, Entry(<<"time.sleep">>, Backoff(tries[t])))]
    /\ Goto(t, "wait")
    /\ UNCHANGED <<CONF, self, hostVars, call, conf, tries, lone>>

MatchingOwnLun(all_devices, iscsi_properties) ==
    {dev \in all_devices : dev = host_device(iscsi_properties)}

\* devices = [dev for dev in devices if dev.startswith(device_prefix)]
MatchingDevices(all_devices, iscsi_properties) ==
    {dev \in all_devices : startswith(dev, device_prefix(iscsi_properties))}

\* if not devices: teardown, else nothing. The entry of the call's record
\* keeps, beside the answer, the device nodes the host had at that time.
DisconnectEnumerate(t) ==
    /\ At(t, "LibvirtISCSIVolumeDriver", "disconnect_volume", "enumerate")
    /\ \E all_devices \in get_all_block_devices :
        LET found == MatchingDevices(all_devices, Props(t))
        IN  /\ log' = [log EXCEPT ![t] =
                         Append(@, [cmd |-> <<"get_all_block_devices">>,
                                    code |-> 0, out |-> all_devices,
                                    visible |-> devices])]
            /\ IF found = {} THEN Goto(t, "manual") ELSE Return(t)
    /\ UNCHANGED <<CONF, self, hostVars, call, conf, tries, lone>>

TeardownWithoutDelete(label) ==
    CASE label = "manual" -> "logout"
      [] label = "logout" -> "done"
      [] label = "delete" -> "done"

\* The teardown runs update node.startup manual, --logout, --op delete.
AfterTeardownStep(label) ==
    CASE label = "manual" -> "logout"
      [] label = "logout" -> "delete"
      [] label = "delete" -> "done"

DisconnectManual(t) ==
    /\ At(t, "LibvirtISCSIVolumeDriver", "disconnect_volume", "manual")
    /\ iscsiadm_update(t, Props(t), "node.startup", "manual",
                       TeardownCheckExitCode, AfterTeardownStep("manual"))
    /\ UNCHANGED <<CONF, self, dirs, mounts, call, conf, tries, lone>>

DisconnectLogout(t) ==
    /\ At(t, "LibvirtISCSIVolumeDriver", "disconnect_volume", "logout")
    /\ run_iscsiadm(t, Props(t), <<"--logout">>, TeardownCheckExitCode,
                    AfterTeardownStep("logout"))
    /\ UNCHANGED <<CONF, self, dirs, mounts, call, conf, tries, lone>>

DisconnectDelete(t) ==
    /\ At(t, "LibvirtISCSIVolumeDriver", "disconnect_volume", "delete")
    /\ run_iscsiadm(t, Props(t), <<"--op", "delete">>, TeardownCheckExitCode,
                    AfterTeardownStep("delete"))
    /\ UNCHANGED <<CONF, self, dirs, mounts, call, conf, tries, lone>>

-----------------------------------------------------------------------------
(* LibvirtNFSVolumeDriver *)

\* os.path.join(CONF.nfs_mount_point_base, self.get_hash_str(nfs_export))
MountPath(nfs_export) ==
    os_path_join(CONF.nfs_mount_point_base, get_hash_str(nfs_export))

ensureDefault == FALSE

\* self._mount_nfs(mount_path, nfs_export, ensure=True)
ensure == TRUE

\* nfs_cmd = ['mount', '-t', 'nfs'] (+ ['-o', options]) + [share, path]
nfs_cmd(mount_path, nfs_share) ==
    <<"mount", "-t", "nfs">> \o
    (IF CONF.nfs_mount_options # None
     THEN <<"-o", CONF.nfs_mount_options>> ELSE <<>>) \o
    <<nfs_share, mount_path>>

AlreadyMounted == "mount.nfs: mount point is busy or already mounted"
AccessDenied == "mount.nfs: access denied by server while mounting"

SaysNothing(message) == FALSE

\* 'already mounted' in exc.message
SaysAlreadyMounted(message) == message = AlreadyMounted

\* The mount command: it fails on a mount point that is mounted already, and
\* can fail for a reason of the server's.
mount(mount_path) ==
    {[code |-> 32, message |-> AccessDenied]} \cup
    IF \E m \in mounts : m[2] = mount_path
    THEN {[code |-> 32, message |-> AlreadyMounted]}
    ELSE {[code |-> 0, message |-> ""]}

PermissionDenied == "mkdir: cannot create directory: Permission denied"
FileExists == "mkdir: cannot create directory: File exists"

mkdir_no_parents(mount_path) ==
    IF mount_path \in dirs
    THEN {[code |-> 1, message |-> FileExists]}
    ELSE {[code |-> 0, message |-> ""], [code |-> 1, message |-> PermissionDenied]}

\* mkdir -p: no error if the directory exists; it can fail for a reason of
\* the host's.
mkdir_p(mount_path) ==
    {[code |-> 0, message |-> ""], [code |-> 1, message |-> PermissionDenied]}

\* connect_volume up to _path_exists(mount_path): stat, any failure of which
\* means "no such path"
NFSStat(t) ==
    /\ At(t, "LibvirtNFSVolumeDriver", "connect_volume", "enter")
    /\ conf' = [conf EXCEPT ![t] =
          BaseConnectVolume("LibvirtNFSVolumeDriver", call[t].connection_info,
                            call[t].mount_device)]
    /\ \E code \in (IF MountPath(Props(t).export) \in dirs THEN {0} ELSE {}) \cup {1} :
        /\ Logged(t, <<"stat", MountPath(Props(t).export)>>, code)
        /\ Goto(t, IF code = 0 THEN "mount" ELSE "mkdir")
    /\ UNCHANGED <<CONF, self, hostVars, call, tries, lone>>

\* utils.execute('mkdir', '-p', mount_path)
NFSMkdir(t) ==
    /\ At(t, "LibvirtNFSVolumeDriver", "connect_volume", "mkdir")
    /\ \E o \in mkdir_p(MountPath(Props(t).export)) :
        /\ log' = [log EXCEPT ![t] =
                     Append(@, [cmd |-> <<"mkdir", "-p", MountPath(Props(t).export)>>,
                                code |-> o.code, message |-> o.message])]
        /\ IF o.code \in DefaultCheckExitCode
           THEN /\ dirs' = dirs \cup {MountPath(Props(t).export)}
                /\ Goto(t, "mount")
           ELSE /\ UNCHANGED dirs
                /\ Raise(t, ProcessExecutionError(
                              <<"mkdir", "-p", MountPath(Props(t).export)>>, o.code))
    /\ UNCHANGED <<CONF, self, node, sessions, devices, mounts,
                   call, conf, tries, lone>>

\* utils.execute(*nfs_cmd, run_as_root=True), the 'already mounted' failure
\* swallowed when ensure; then source_type, source_path, return conf
NFSMount(t) ==
    /\ At(t, "LibvirtNFSVolumeDriver", "connect_volume", "mount")
    /\ LET mount_path == MountPath(Props(t).export)
           cmd == nfs_cmd(mount_path, Props(t).export)
       IN  \E o \in mount(mount_path) :
            /\ log' = [log EXCEPT ![t] =
                         Append(@, [cmd |-> cmd, code |-> o.code,
                                    message |-> o.message])]
            /\ mounts' = IF o.code = 0
                         THEN mounts \cup {<<Props(t).export, mount_path>>}
                         ELSE mounts
            /\ IF o.code \in DefaultCheckExitCode
                  \/ (ensure /\ SaysAlreadyMounted(o.message))
               THEN /\ conf' = [conf EXCEPT
                          ![t].source_type = "file",
                          ![t].source_path = os_path_join(mount_path, Props(t).name)]
                    /\ Return(t)
               ELSE /\ UNCHANGED conf
                    /\ Raise(t, [type |-> "ProcessExecutionError", cmd |-> cmd,
                                 exit_code |-> o.code, message |-> o.message])
    /\ UNCHANGED <<CONF, self, node, sessions, devices, dirs,
                   call, tries, lone>>

-----------------------------------------------------------------------------
(* The host outside the drivers *)

\* Thread t has made at least one step of a connect_volume that touches the
\* host, and its caller has not taken the result.
InConnectBody(t) ==
    /\ IsISCSI \/ IsNFS
    /\ call[t].op = "connect_volume"
    /\ pc[t] \notin {"idle", "enter", "query"}

\* The by-path node of a LUN appears some time after the login.
DeviceAppears(tg, l) ==
    /\ NoneFinished
    /\ tg \in sessions
    /\ ByPath(tg, l) \notin devices
    /\ devices' = devices \cup {ByPath(tg, l)}
    /\ UNCHANGED <<CONF, self, node, sessions, dirs, mounts, locks,
                   pc, call, conf, tries, exc, log, lone>>

\* The process dies while thread t is in connect_volume, after any of its
\* steps: what the threads hold in memory, the locks included, is lost; the
\* host stays as it is. The process starts again with idle threads.
Crash(t) ==
    /\ InConnectBody(t)
    /\ lone' = [phase |-> "crashed", thread |-> t, call |-> call[t],
                at |-> pc[t]]
    /\ locks' = [n \in LockNames |-> NoThread]
    /\ pc' = [u \in Threads |-> "idle"]
    /\ call' = [u \in Threads |-> NoCall]
    /\ conf' = [u \in Threads |-> NoConf]
    /\ tries' = [u \in Threads |-> 0]
    /\ exc' = [u \in Threads |-> NoExc]
    /\ log' = [u \in Threads |-> <<>>]
    /\ UNCHANGED <<CONF, self, hostVars>>

-----------------------------------------------------------------------------
(* Specification *)

Configs == [num_iscsi_scan_tries : 0..MaxScanTries,
            rbd_user : {None},
            rbd_secret_uuid : {None},
            nfs_mount_point_base : {"/var/lib/nova/mnt"},
            nfs_mount_options : {None}]

Init ==
    /\ CONF \in Configs
    /\ self \in Drivers
    /\ node = [tg \in Targets |-> NoNode]
    /\ sessions = {}
    /\ devices = {}
    /\ dirs = {}
    /\ mounts = {}
    /\ locks = [n \in LockNames |-> NoThread]
    /\ pc = [t \in Threads |-> "idle"]
    /\ call = [t \in Threads |-> NoCall]
    /\ conf = [t \in Threads |-> NoConf]
    /\ tries = [t \in Threads |-> 0]
    /\ exc = [t \in Threads |-> NoExc]
    /\ log = [t \in Threads |-> <<>>]
    /\ lone = NoLone

Next ==
    \/ \E t \in Threads, c \in CallsOf(self) : CallStart(t, c)
    \/ \E t \in Threads : Collect(t)
    \/ \E t \in Threads : LocalConnect(t)
    \/ \E t \in Threads : FakeConnect(t)
    \/ \E t \in Threads : NetConnect(t)
    \/ \E t \in Threads : BaseDisconnect(t)
    \/ \E t \in Threads, op \in Ops : CallWait(t, op)
    \/ \E t \in Threads, c \in CallsOf(self) : Acquire(t, c)
    \/ \E t \in Threads : ConnectQuery(t)
    \/ \E t \in Threads : ConnectNew(t)
    \/ \E t \in Threads : ConnectAuthMethod(t)
    \/ \E t \in Threads : ConnectAuthUsername(t)
    \/ \E t \in Threads : ConnectAuthPassword(t)
    \/ \E t \in Threads : ConnectLogin(t)
    \/ \E t \in Threads : ConnectStartup(t)
    \/ \E t \in Threads : ConnectWait(t)
    \/ \E t \in Threads : ConnectRescan(t)
    \/ \E t \in Threads : ConnectRecheck(t)
    \/ \E t \in Threads : DisconnectEnumerate(t)
    \/ \E t \in Threads : DisconnectManual(t)
    \/ \E t \in Threads : DisconnectLogout(t)
    \/ \E t \in Threads : DisconnectDelete(t)
    \/ \E t \in Threads : NFSStat(t)
    \/ \E t \in Threads : NFSMkdir(t)
    \/ \E t \in Threads : NFSMount(t)
    \/ \E tg \in Targets, l \in Luns : DeviceAppears(tg, l)

Spec == Init /\ [][Next]_vars

\* LibvirtNetVolumeDriver under every setting of rbd_user and rbd_secret_uuid.
NetConfigs == [num_iscsi_scan_tries : {MaxScanTries},
               rbd_user : {None, "admin"},
               rbd_secret_uuid : {None, "uuid-conf"},
               nfs_mount_point_base : {"/var/lib/nova/mnt"},
               nfs_mount_options : {None}]

InitNet ==
    /\ CONF \in NetConfigs
    /\ self = "LibvirtNetVolumeDriver"
    /\ node = [tg \in Targets |-> NoNode]
    /\ sessions = {}
    /\ devices = {}
    /\ dirs = {}
    /\ mounts = {}
    /\ locks = [n \in LockNames |-> NoThread]
    /\ pc = [t \in Threads |-> "idle"]
    /\ call = [t \in Threads |-> NoCall]
    /\ conf = [t \in Threads |-> NoConf]
    /\ tries = [t \in Threads |-> 0]
    /\ exc = [t \in Threads |-> NoExc]
    /\ log = [t \in Threads |-> <<>>]
    /\ lone = NoLone

NextNet ==
    \/ \E t \in Threads, c \in CallsOf(self) : CallStart(t, c)
    \/ \E t \in Threads : Collect(t)
    \/ \E t \in Threads : NetConnect(t)
    \/ \E t \in Threads : BaseDisconnect(t)

SpecNet == InitNet /\ [][NextNet]_vars

\* The drivers in a process that can die and be started again.
NextCrash ==
    \/ Next
    \/ \E t \in Threads : Crash(t)

SpecCrash == Init /\ [][NextCrash]_vars

-----------------------------------------------------------------------------
(* Two callers of the iSCSI driver, each making one call, on a host where
   nothing of the target is left or a volume of the target is attached. A
   caller whose call has ended keeps its result and calls no more. *)

\* The node record a connect_volume with data d leaves.
AttachedNode(d) ==
    [exists |-> TRUE,
     props |-> [k \in NodeKeys |->
        CASE k = "node.startup" -> "automatic"
          [] k = "node.session.auth.authmethod" -> d.auth_method
          [] k = "node.session.auth.username" ->
                IF d.auth_method # None THEN d.auth_username ELSE None
          [] k = "node.session.auth.password" ->
                IF d.auth_method # None THEN d.auth_password ELSE None]]

\* The first caller attaches a volume, the others detach one.
PairOp(t) == IF t = 1 THEN "connect_volume" ELSE "disconnect_volume"

KeepResult(t) ==
    /\ pc[t] = "done"
    /\ pc' = [pc EXCEPT ![t] = "over"]
    /\ lone' = LoneAtCollect(t)
    /\ UNCHANGED <<CONF, self, hostVars, locks, call, conf, tries, exc, log>>

InitPair ==
    /\ CONF \in Configs
    /\ self = "LibvirtISCSIVolumeDriver"
    /\ \/ /\ node = [tg \in Targets |-> NoNode]
          /\ sessions = {}
          /\ devices = {}
       \/ \E d \in ISCSIDataNoLun :
             /\ node = [tg \in Targets |->
                          IF tg = TargetOf(d) THEN AttachedNode(d) ELSE NoNode]
             /\ sessions = {TargetOf(d)}
             /\ devices \in SUBSET TargetDevices(TargetOf(d))
    /\ dirs = {}
    /\ mounts = {}
    /\ locks = [n \in LockNames |-> NoThread]
    /\ pc = [t \in Threads |-> "idle"]
    /\ call = [t \in Threads |-> NoCall]
    /\ conf = [t \in Threads |-> NoConf]
    /\ tries = [t \in Threads |-> 0]
    /\ exc = [t \in Threads |-> NoExc]
    /\ log = [t \in Threads |-> <<>>]
    /\ lone = NoLone

NextPair ==
    \/ \E t \in Threads : CallWait(t, PairOp(t))
    \/ \E t \in Threads, c \in CallsOf(self) : Acquire(t, c)
    \/ \E t \in Threads : ConnectQuery(t)
    \/ \E t \in Threads : ConnectNew(t)
    \/ \E t \in Threads : ConnectAuthMethod(t)
    \/ \E t \in Threads : ConnectAuthUsername(t)
    \/ \E t \in Threads : ConnectAuthPassword(t)
    \/ \E t \in Threads : ConnectLogin(t)
    \/ \E t \in Threads : ConnectStartup(t)
    \/ \E t \in Threads : ConnectWait(t)
    \/ \E t \in Threads : ConnectRescan(t)
    \/ \E t \in Threads : ConnectRecheck(t)
    \/ \E t \in Threads : DisconnectEnumerate(t)
    \/ \E t \in Threads : DisconnectManual(t)
    \/ \E t \in Threads : DisconnectLogout(t)
    \/ \E t \in Threads : DisconnectDelete(t)
    \/ \E tg \in Targets, l \in Luns : DeviceAppears(tg, l)
    \/ \E t \in Threads : KeepResult(t)

SpecPair == InitPair /\ [][NextPair]_vars

-----------------------------------------------------------------------------
(* Callers of the iSCSI driver, each making one call of either method, when
   every command they run ends and a caller that can go on does. *)

InitLive ==
    /\ InitPair
    /\ CONF.num_iscsi_scan_tries = 1
    /\ \A tg \in Targets :
          node[tg].exists =>
              node[tg].props["node.session.auth.authmethod"] = "CHAP"

\* The volumes they attach and detach: the LUNs of a target with CHAP, where
\* connect_volume runs every one of its commands.
LiveCalls ==
    {c \in CallsOf(self) :
        /\ c.connection_info.data.auth_method = "CHAP"
        /\ "target_lun" \in DOMAIN c.connection_info.data}

\* What caller t does once it has called: wait for the lock and take it, run
\* the steps of the method, keep the result.
ThreadStep(t) ==
    \/ \E c \in LiveCalls : Acquire(t, c)
    \/ ConnectQuery(t)
    \/ ConnectNew(t)
    \/ ConnectAuthMethod(t)
    \/ ConnectAuthUsername(t)
    \/ ConnectAuthPassword(t)
    \/ ConnectLogin(t)
    \/ ConnectStartup(t)
    \/ ConnectWait(t)
    \/ ConnectRescan(t)
    \/ ConnectRecheck(t)
    \/ DisconnectEnumerate(t)
    \/ DisconnectManual(t)
    \/ DisconnectLogout(t)
    \/ DisconnectDelete(t)
    \/ KeepResult(t)

NextLive ==
    \/ \E t \in Threads, op \in Ops : CallWait(t, op)
    \/ \E t \in Threads : ThreadStep(t)
    \/ \E tg \in Targets, l \in Luns : DeviceAppears(tg, l)

SpecLive ==
    /\ InitLive
    /\ [][NextLive]_vars
    /\ \A t \in Threads : WF_vars(ThreadStep(t))

-----------------------------------------------------------------------------
(* Reading a call's log *)

InConnect(t) == call[t].op = "connect_volume"
InDisconnect(t) == call[t].op = "disconnect_volume"

Is(e, cmd) == e.cmd = cmd
IsUpdate(e, key) == Len(e.cmd) = 6 /\ e.cmd[2] = "update" /\ e.cmd[4] = key
IsExists(e) == Len(e.cmd) = 2 /\ e.cmd[1] = "os.path.exists"
IsSleep(e) == e.cmd = <<"time.sleep">>
IsMount(e) == Len(e.cmd) >= 1 /\ e.cmd[1] = "mount"

Indexes(t) == DOMAIN log[t]
Rescans(t) == Cardinality({i \in Indexes(t) : Is(log[t][i], <<"--rescan">>)})
Checks(t) == Cardinality({i \in Indexes(t) : IsExists(log[t][i])})

IsRescan(e) == Is(e, <<"--rescan">>)
IsLogin(e) == Is(e, <<"--login">>)
IsNew(e) == Is(e, <<"--op", "new">>)

TargetOfCall(t) == TargetOf(call[t].connection_info.data)

\* The devices of the call's target among those the enumeration returned.
Listed(e, tg) == {dev \in e.out : \E l \in Luns : dev = ByPath(tg, l)}

Unregistered(tg) == ~node[tg].exists /\ tg \notin sessions

\* The iSCSI labels between taking the lock and leaving the method.
BodyLabels == {"query", "new", "authmethod", "username", "password", "login",
               "startup", "wait", "rescan", "recheck",
               "enumerate", "manual", "logout", "delete"}

InBody(t) == IsISCSI /\ pc[t] \in BodyLabels

-----------------------------------------------------------------------------
(* C1: for every transport, a successful connect_volume on a host with no
   record, session or mount of the volume's target or export, followed at
   once by disconnect_volume of the same volume by the only user (for iSCSI:
   the enumeration shows no device of the target), ends with no node record
   and no session of the target and no mount of the export. *)
C1_ConnectDisconnectLeavesNothing ==
    \A t \in Threads :
        (/\ Returned(t)
         /\ InDisconnect(t)
         /\ lone.phase = "disconnect"
         /\ lone.thread = t
         /\ (IsISCSI => Listed(log[t][1], TargetOfCall(t)) = {}))
        => HostClean(call[t])

\* The same for the iSCSI driver alone: the pair is run, the target torn down.
C1_ISCSIPairTornDown ==
    /\ IsISCSI
    /\ \E t \in Threads :
        /\ Returned(t) /\ InDisconnect(t)
        /\ lone.phase = "disconnect" /\ lone.thread = t
        /\ Listed(log[t][1], TargetOfCall(t)) = {}
        /\ HostClean(call[t])

-----------------------------------------------------------------------------
(* C2: the step of iSCSI disconnect_volume that enumerates the block devices
   and finds one starting with the target's prefix ends the call: it returns,
   having run no iscsiadm command, with the node records, the sessions and
   the device nodes as they were. *)
C2_SharedTargetUntouched ==
    [][\A t \in Threads :
        (/\ IsISCSI
         /\ pc[t] = "enumerate"
         /\ pc'[t] # "enumerate"
         /\ Listed(log'[t][1], TargetOfCall(t)) # {})
        => /\ pc'[t] = "done"
           /\ exc'[t] = NoExc
           /\ Len(log'[t]) = 1
           /\ UNCHANGED <<node, sessions, devices>>]_vars

C2_Witness ==
    \E t \in Threads :
        /\ IsISCSI /\ InDisconnect(t) /\ Returned(t)
        /\ Listed(log[t][1], TargetOfCall(t)) # {}
        /\ "/dev/sdb" \in log[t][1].out
        /\ TargetOfCall(t) \in sessions
        /\ node[TargetOfCall(t)].props["node.startup"] = "automatic"

-----------------------------------------------------------------------------
(* C3: an iSCSI connect_volume on a target another LUN of which is logged in
   already succeeds: the login's exit code 255 is not raised; a
   connect_volume fails only by an exit code no caller tolerates or by the
   device not appearing within the retry budget; and what it returns has the
   by-path device of its own LUN as source_path, which differs from that of
   every other LUN. *)
C3_ConcurrentConnects ==
    \A t \in Threads :
        (IsISCSI /\ InConnect(t) /\ Finished(t)) =>
            /\ (exc[t].type = "ProcessExecutionError" /\ exc[t].cmd = <<"--login">>)
                   => exc[t].exit_code # 255
            /\ Raised(t) =>
                   \/ exc[t].type = "NovaException"
                   \/ exc[t].exit_code \notin {0, 21, 255}
            /\ Returned(t) =>
                   /\ conf[t].source_path =
                        ByPath(TargetOfCall(t),
                               Get(call[t].connection_info.data, "target_lun", 0))
                   /\ \A l \in Luns :
                        l # Get(call[t].connection_info.data, "target_lun", 0)
                        => conf[t].source_path # ByPath(TargetOfCall(t), l)

\* The second of two connects on LUNs 0 and 1 of a target returns after a
\* duplicate login, the first one's device being there, while the next
\* caller waits.
C3_Witness ==
    \E t \in Threads :
        /\ IsISCSI /\ InConnect(t) /\ Returned(t)
        /\ \E i \in Indexes(t) : IsLogin(log[t][i]) /\ log[t][i].code = 255
        /\ Get(call[t].connection_info.data, "target_lun", 0) = 1
        /\ ByPath(TargetOfCall(t), 0) \in devices
        /\ \E u \in Threads \ {t} : pc[u] = "enter"

-----------------------------------------------------------------------------
(* C4: at most one thread is inside the body of iSCSI connect_volume or
   disconnect_volume, and it is the holder of the lock. *)
C4_MutualExclusion ==
    /\ Cardinality({t \in Threads : InBody(t)}) <= 1
    /\ \A t \in Threads : InBody(t) => locks["connect_volume"] = t

\* One caller runs the teardown while another waits to connect.
C4_Witness ==
    \E t, u \in Threads :
        /\ t # u
        /\ InBody(t) /\ InDisconnect(t) /\ pc[t] = "logout"
        /\ IsISCSI /\ pc[u] = "enter" /\ InConnect(u)

-----------------------------------------------------------------------------
(* C5: an iSCSI connect_volume that ends with the device-not-found error has
   found the path missing at every check, has run exactly
   num_iscsi_scan_tries rescans and has slept 1, 4, ..., N^2 between them,
   and the error names the expected path; and a connect_volume that reaches
   the wait, never finds the path and has no rescan fail ends with that
   error, not with a descriptor or a process-execution error. *)
Squares(n) == [i \in 1..n |-> i * i]

SleepsOf(t) ==
    LET slept == SelectSeq(log[t], IsSleep)
    IN  [i \in 1..Len(slept) |-> slept[i].code]

NeverSeen(t) == \A i \in Indexes(t) : IsExists(log[t][i]) => log[t][i].code = 1

C5_DeviceNeverAppears ==
    \A t \in Threads :
        (IsISCSI /\ InConnect(t) /\ Finished(t)) =>
            /\ exc[t].type = "NovaException" =>
                /\ NeverSeen(t)
                /\ Rescans(t) = CONF.num_iscsi_scan_tries
                /\ SleepsOf(t) = Squares(CONF.num_iscsi_scan_tries)
                /\ exc[t].message =
                     "iSCSI device not found at /dev/disk/by-path/ip-" \o
                     call[t].connection_info.data.target_portal \o "-iscsi-" \o
                     call[t].connection_info.data.target_iqn \o "-lun-" \o
                     ToString(Get(call[t].connection_info.data, "target_lun", 0))
            /\ (/\ Checks(t) > 0
                /\ NeverSeen(t)
                /\ \A i \in Indexes(t) : IsRescan(log[t][i]) => log[t][i].code = 0)
               => exc[t].type = "NovaException"

C5_Witness ==
    \E t \in Threads :
        /\ IsISCSI /\ InConnect(t) /\ Finished(t)
        /\ exc[t].type = "NovaException"
        /\ CONF.num_iscsi_scan_tries = 2
        /\ SleepsOf(t) = <<1, 4>>

-----------------------------------------------------------------------------
(* C6: every export is mounted at base_dir joined with the hash of the
   export; an NFS connect_volume whose mount command fails with 'already
   mounted' does not raise; and an NFS connect_volume that returns gives
   source_type 'file' and the mount path joined with the file name. *)
C6_Digest(export) ==
    IF export = "nfs-host:/export" THEN "32abefc2e639378a3f28f28319e71ab9"
    ELSE "e89a42f7bcd70f8bd8de674def89cb9e"

C6_NFSConnectIdempotent ==
    /\ \A m \in mounts : m[2] = "/var/lib/nova/mnt/" \o C6_Digest(m[1])
    /\ \A t \in Threads :
        (IsNFS /\ InConnect(t) /\ Finished(t)) =>
            /\ (/\ Len(log[t]) > 0
                /\ IsMount(log[t][Len(log[t])])
                /\ log[t][Len(log[t])].message =
                      "mount.nfs: mount point is busy or already mounted")
               => Returned(t)
            /\ Returned(t) =>
                /\ conf[t].source_type = "file"
                /\ conf[t].source_path =
                     "/var/lib/nova/mnt/" \o
                     C6_Digest(call[t].connection_info.data.export) \o "/" \o
                     call[t].connection_info.data.name

\* The second connect of an export: the directory is there, the mount
\* command says 'already mounted', the call returns.
C6_Witness ==
    \E t \in Threads :
        /\ IsNFS /\ InConnect(t) /\ Returned(t)
        /\ Len(log[t]) = 2
        /\ log[t][1].code = 0
        /\ log[t][2].code = 32

-----------------------------------------------------------------------------
(* C7: in connect_volume, a --login that exits with a code other than 0 and
   255, an update of an auth parameter that exits with a code other than 0,
   and a mount that fails otherwise than with 'already mounted' are the last
   thing the call does: the call has raised, and returns no descriptor. *)
C7_Failed(e) ==
    \/ IsLogin(e) /\ e.code \notin {0, 255}
    \/ /\ e.code # 0
       /\ \/ IsUpdate(e, "node.session.auth.authmethod")
          \/ IsUpdate(e, "node.session.auth.username")
          \/ IsUpdate(e, "node.session.auth.password")
    \/ /\ IsMount(e) /\ e.code # 0
       /\ e.message # "mount.nfs: mount point is busy or already mounted"

C7_ConnectIsStrict ==
    \A t \in Threads :
        (pc[t] # "idle" /\ InConnect(t)) =>
            \A i \in Indexes(t) :
                C7_Failed(log[t][i]) =>
                    /\ i = Len(log[t])
                    /\ Raised(t)
                    /\ exc[t].type = "ProcessExecutionError"
                    /\ exc[t].exit_code = log[t][i].code

C7_Witness ==
    \E t \in Threads :
        /\ IsISCSI /\ InConnect(t) /\ Raised(t)
        /\ IsUpdate(log[t][Len(log[t])], "node.session.auth.username")
        /\ log[t][Len(log[t])].code = 1

-----------------------------------------------------------------------------
(* C8: in iSCSI connect_volume the first command is the record query;
   --op new is run exactly when the query exits with 21 or 255, and then as
   the second command; when the query exits with another non-zero code the
   call raises with that code and runs nothing more. *)
C8_RecordQuery ==
    \A t \in Threads :
        (IsISCSI /\ InConnect(t) /\ Len(log[t]) > 0) =>
            LET q == log[t][1] IN
            /\ q.cmd = <<>>
            /\ \A i \in Indexes(t) :
                 IsNew(log[t][i]) => (i = 2 /\ q.code \in {21, 255})
            /\ q.code \in {21, 255} =>
                 IF Len(log[t]) = 1 THEN pc[t] = "new" ELSE IsNew(log[t][2])
            /\ q.code \notin {0, 21, 255} =>
                 /\ Len(log[t]) = 1
                 /\ Raised(t)
                 /\ exc[t].type = "ProcessExecutionError"
                 /\ exc[t].exit_code = q.code

C8_Witness ==
    \E t \in Threads :
        /\ IsISCSI /\ InConnect(t) /\ Returned(t)
        /\ log[t][1].code = 21
        /\ IsNew(log[t][2])

-----------------------------------------------------------------------------
(* C9: an iSCSI disconnect_volume whose enumeration shows no device of the
   target runs update node.startup manual, --logout and --op delete, in
   that order and nothing else; an exit code 0, 21 or 255 of any of them is
   not raised and the next one runs; the call returns after the third. *)
C9_Teardown ==
    <<<<"--op", "update", "-n", "node.startup", "-v", "manual">>,
      <<"--logout">>, <<"--op", "delete">>>>

C9_TeardownTolerant ==
    \A t \in Threads :
        (/\ IsISCSI /\ InDisconnect(t) /\ Len(log[t]) > 0
         /\ Listed(log[t][1], TargetOfCall(t)) = {}) =>
            /\ Len(log[t]) <= 4
            /\ \A i \in 2..Len(log[t]) : log[t][i].cmd = C9_Teardown[i - 1]
            /\ Raised(t) => /\ Len(log[t]) > 1
                            /\ log[t][Len(log[t])].code \notin {0, 21, 255}
            /\ Returned(t) => Len(log[t]) = 4
            /\ ~Finished(t) =>
                 pc[t] = <<"manual", "logout", "delete">>[Len(log[t])]

\* The teardown of a target that has neither record nor session: all three
\* commands say "not found", and the call returns.
C9_Witness ==
    \E t \in Threads :
        /\ IsISCSI /\ InDisconnect(t) /\ Returned(t)
        /\ Len(log[t]) = 4
        /\ log[t][2].code = 21
        /\ log[t][3].code = 255
        /\ log[t][4].code = 21

-----------------------------------------------------------------------------
(* C10: an iSCSI disconnect_volume whose enumeration shows no device of the
   target, and whose commands exit as the target's state has them exit (0,
   or 21 or 255 for what is not there), returns without raising and leaves
   the target with no node record and no session, whatever the state it
   found: no record, a record and no session, or a session. *)
C10_DetachSafe ==
    \A t \in Threads :
        (/\ IsISCSI /\ InDisconnect(t) /\ Finished(t)
         /\ Listed(log[t][1], TargetOfCall(t)) = {}
         /\ \A i \in 2..Len(log[t]) : log[t][i].code \in {0, 21, 255}) =>
            /\ Returned(t)
            /\ Unregistered(TargetOfCall(t))

\* The detach after a connect that failed between --op new and --login: the
\* record is there (the update exits 0), the session is not (the logout
\* exits 21).
C10_Witness ==
    \E t \in Threads :
        /\ IsISCSI /\ InDisconnect(t) /\ Returned(t)
        /\ Len(log[t]) = 4
        /\ log[t][2].code = 0
        /\ log[t][3].code = 21
        /\ log[t][4].code = 0
        /\ Unregistered(TargetOfCall(t))

-----------------------------------------------------------------------------
(* C11: a connect_volume of the iSCSI or the NFS driver that is called again
   with the same descriptor, after the process died in it past any of its
   steps, fails only as a first call can fail (an exit code of the
   environment's that no caller tolerates, the mkdir or the mount refused,
   or the device not appearing within the retry budget); when it returns,
   the target is registered, logged in and set to start automatically and
   the device is there (respectively: the export is mounted at its path),
   and the descriptor is the one a first call returns. *)
C11_Descriptor(c, source_type, source_path) ==
    [driver_name |-> "tap", driver_format |-> "raw", driver_cache |-> "none",
     target_dev |-> c.mount_device, target_bus |-> "virtio",
     serial |-> c.connection_info.serial,
     source_type |-> source_type, source_path |-> source_path,
     source_protocol |-> None, source_host |-> None,
     auth_username |-> None, auth_secret_type |-> None,
     auth_secret_uuid |-> None]

C11_Retried(t) == lone.phase = "retry" /\ lone.thread = t /\ Finished(t)

C11_RetryAfterCrash ==
    \A t \in Threads :
        C11_Retried(t) =>
            LET data == call[t].connection_info.data
                last == log[t][Len(log[t])]
            IN
            /\ call[t] = lone.call
            /\ (IsISCSI /\ Raised(t)) =>
                  \/ exc[t].type = "NovaException"
                  \/ exc[t].exit_code \notin {0, 21, 255}
            /\ (IsNFS /\ Raised(t)) =>
                  \/ last.cmd[1] = "mkdir"
                  \/ last.message = "mount.nfs: access denied by server while mounting"
            /\ (IsISCSI /\ Returned(t)) =>
                  LET tg == TargetOfCall(t)
                      path == ByPath(tg, Get(data, "target_lun", 0))
                  IN  /\ node[tg].exists
                      /\ tg \in sessions
                      /\ node[tg].props["node.startup"] = "automatic"
                      /\ path \in devices
                      /\ conf[t] = C11_Descriptor(call[t], "block", path)
            /\ (IsNFS /\ Returned(t)) =>
                  LET path == "/var/lib/nova/mnt/" \o C6_Digest(data.export)
                  IN  /\ <<data.export, path>> \in mounts
                      /\ conf[t] = C11_Descriptor(call[t], "file",
                                                  path \o "/" \o data.name)

\* The retry of a connect_volume the process died in after the login: the
\* record is found, the login says "already logged in", the call returns.
C11_Witness ==
    \E t \in Threads :
        /\ IsISCSI /\ C11_Retried(t) /\ Returned(t)
        /\ lone.at = "startup"
        /\ log[t][1].code = 0
        /\ \E i \in Indexes(t) : IsLogin(log[t][i]) /\ log[t][i].code = 255

\* The retry of an NFS connect_volume the process died in after the mount.
C11_WitnessNFS ==
    \E t \in Threads :
        /\ IsNFS /\ C11_Retried(t) /\ Returned(t)
        /\ lone.at = "done"
        /\ log[t][Len(log[t])].code = 32

-----------------------------------------------------------------------------
(* C12: NFS connect_volume calls that run at the same time on one export,
   their stat, mkdir and mount steps interleaved in any way: a call fails
   only when its mkdir or its mount is refused by the host or the server; a
   call whose mkdir finds the directory made by the other, or whose mount
   finds the export mounted by the other, returns; every call that returns
   gives the one mount path of the export, where the export is mounted
   once. *)
C12_Refused(e) ==
    \/ e.cmd[1] = "mkdir" /\ e.message = "mkdir: cannot create directory: Permission denied"
    \/ e.cmd[1] = "mount" /\ e.message = "mount.nfs: access denied by server while mounting"

C12_Path(export) == "/var/lib/nova/mnt/" \o C6_Digest(export)

C12_ConcurrentNFSConnects ==
    /\ \A m1, m2 \in mounts : m1[1] = m2[1] => m1 = m2
    /\ \A t \in Threads :
        (IsNFS /\ InConnect(t) /\ Finished(t)) =>
            LET export == call[t].connection_info.data.export
                last == log[t][Len(log[t])]
            IN  /\ Raised(t) => C12_Refused(last)
                /\ Returned(t) =>
                    /\ last.cmd[1] = "mount"
                    /\ last.code = 0 \/ last.message =
                          "mount.nfs: mount point is busy or already mounted"
                    /\ <<export, C12_Path(export)>> \in mounts
                    /\ conf[t].source_path =
                          C12_Path(export) \o "/" \o call[t].connection_info.data.name

\* Two calls on one export, both having found no directory and made it:
\* the first has mounted the export and returned, the second is about to
\* run its mount.
C12_Witness ==
    \E t, u \in Threads :
        /\ t # u /\ IsNFS
        /\ InConnect(t) /\ InConnect(u)
        /\ call[t].connection_info.data.export = call[u].connection_info.data.export
        /\ Returned(t) /\ Len(log[t]) = 3 /\ log[t][3].code = 0
        /\ pc[u] = "mount" /\ Len(log[u]) = 2 /\ log[u][2].code = 0

-----------------------------------------------------------------------------
(* C13: connect_volume of the network driver, for every declared sub-type,
   every setting of rbd_secret_uuid and rbd_user and every descriptor that
   carries the auth fields: if rbd_secret_uuid is configured, the returned
   auth_secret_uuid is the configured one and the auth fields are set even
   when the descriptor does not declare auth_enabled; otherwise the auth
   fields are set only if the descriptor declares auth_enabled; where set,
   user name, secret type and secret id are the descriptor's, except that a
   configured value wins for its field. *)
C13_HasAuthFields(t) ==
    {"auth_username", "secret_type", "secret_uuid"} \subseteq
        DOMAIN call[t].connection_info.data

C13_Username(d) == IF CONF.rbd_user # None THEN CONF.rbd_user ELSE d.auth_username

C13_NetAuth ==
    \A t \in Threads :
        (/\ self = "LibvirtNetVolumeDriver"
         /\ InConnect(t) /\ Finished(t)
         /\ C13_HasAuthFields(t)) =>
            LET d == call[t].connection_info.data
            IN  /\ Returned(t)
                /\ IF CONF.rbd_secret_uuid # None
                   THEN /\ conf[t].auth_secret_uuid = CONF.rbd_secret_uuid
                        /\ conf[t].auth_secret_type = d.secret_type
                        /\ conf[t].auth_username = C13_Username(d)
                   ELSE IF Get(d, "auth_enabled", FALSE) = TRUE
                   THEN /\ conf[t].auth_secret_uuid = d.secret_uuid
                        /\ conf[t].auth_secret_type = d.secret_type
                        /\ conf[t].auth_username = C13_Username(d)
                   ELSE /\ conf[t].auth_secret_uuid = None
                        /\ conf[t].auth_secret_type = None
                        /\ conf[t].auth_username = None

\* C13 as amended: the configured values count only for sub-type rbd, and
\* rbd_user only where rbd_secret_uuid is configured too; in every other
\* case the auth fields are set only if the descriptor declares
\* auth_enabled, and all three are the descriptor's.
C13_NetAuthOfRbd ==
    \A t \in Threads :
        (/\ self = "LibvirtNetVolumeDriver"
         /\ InConnect(t) /\ Finished(t)
         /\ C13_HasAuthFields(t)) =>
            LET d == call[t].connection_info.data
                rbd == call[t].connection_info.driver_volume_type = "rbd"
            IN  /\ Returned(t)
                /\ IF rbd /\ CONF.rbd_secret_uuid # None
                   THEN /\ conf[t].auth_secret_uuid = CONF.rbd_secret_uuid
                        /\ conf[t].auth_secret_type = d.secret_type
                        /\ conf[t].auth_username = C13_Username(d)
                   ELSE IF Get(d, "auth_enabled", FALSE) = TRUE
                   THEN /\ conf[t].auth_secret_uuid = d.secret_uuid
                        /\ conf[t].auth_secret_type = d.secret_type
                        /\ conf[t].auth_username = d.auth_username
                   ELSE /\ conf[t].auth_secret_uuid = None
                        /\ conf[t].auth_secret_type = None
                        /\ conf[t].auth_username = None

\* Sub-type rbd, rbd_secret_uuid configured and rbd_user not, a descriptor
\* that declares auth_enabled False: the auth fields are set, the secret id
\* is the configured one, the user name the descriptor's.
C13_Witness ==
    \E t \in Threads :
        /\ self = "LibvirtNetVolumeDriver" /\ InConnect(t) /\ Returned(t)
        /\ call[t].connection_info.driver_volume_type = "rbd"
        /\ CONF.rbd_user = None /\ CONF.rbd_secret_uuid = "uuid-conf"
        /\ Get(call[t].connection_info.data, "auth_enabled", TRUE) = FALSE
        /\ conf[t].auth_secret_uuid = "uuid-conf"
        /\ conf[t].auth_username = "cinder"
        /\ conf[t].auth_secret_type = "ceph"

\* rbd_user is configured, rbd_secret_uuid is not, the descriptor declares
\* auth_enabled: the user name returned is the descriptor's.
C13_UserIgnored ==
    \E t \in Threads :
        /\ self = "LibvirtNetVolumeDriver" /\ InConnect(t) /\ Returned(t)
        /\ call[t].connection_info.driver_volume_type = "rbd"
        /\ CONF.rbd_user = "admin" /\ CONF.rbd_secret_uuid = None
        /\ Get(call[t].connection_info.data, "auth_enabled", FALSE) = TRUE
        /\ conf[t].auth_username = "cinder"

-----------------------------------------------------------------------------
(* C14: the commands of an iSCSI connect_volume, in the order it has issued
   them, are: the record query; --op new if the query exited with 21 or 255;
   if the descriptor has an auth method, the updates of authmethod, username
   and password, in that order, and none of them otherwise; --login; the
   update of node.startup to automatic; and only then device-path checks,
   rescans and sleeps. Each command is issued only after the one before it
   has completed: an update with exit code 0, the login with 0 or 255. *)
C14_Update(key, value) == <<"--op", "update", "-n", key, "-v", value>>

C14_Expected(t) ==
    LET d == call[t].connection_info.data
    IN  <<<<>>>> \o
        (IF log[t][1].code \in {21, 255} THEN <<<<"--op", "new">>>> ELSE <<>>) \o
        (IF d.auth_method # None
         THEN <<C14_Update("node.session.auth.authmethod", d.auth_method),
                C14_Update("node.session.auth.username", d.auth_username),
                C14_Update("node.session.auth.password", d.auth_password)>>
         ELSE <<>>) \o
        <<<<"--login">>, C14_Update("node.startup", "automatic")>>

C14_CommandOrder ==
    \A t \in Threads :
        (IsISCSI /\ InConnect(t) /\ Len(log[t]) > 0) =>
            LET expected == C14_Expected(t)
                n == Len(expected)
            IN  \A i \in Indexes(t) :
                    /\ i <= n => log[t][i].cmd = expected[i]
                    /\ i > n => \/ IsExists(log[t][i])
                                \/ IsRescan(log[t][i])
                                \/ IsSleep(log[t][i])
                    /\ (1 < i /\ i <= n + 1) =>
                          IF IsLogin(log[t][i - 1])
                          THEN log[t][i - 1].code \in {0, 255}
                          ELSE IF i = 2
                          THEN log[t][1].code \in {0, 21, 255}
                          ELSE log[t][i - 1].code = 0

\* A connect_volume with CHAP on a target without record has returned: query,
\* --op new, three updates, --login, node.startup, and the device check.
C14_Witness ==
    \E t \in Threads :
        /\ IsISCSI /\ InConnect(t) /\ Returned(t)
        /\ call[t].connection_info.data.auth_method = "CHAP"
        /\ log[t][1].code = 21
        /\ Len(log[t]) >= 8
        /\ IsLogin(log[t][6]) /\ log[t][6].code = 0
        /\ IsUpdate(log[t][7], "node.startup")
        /\ IsExists(log[t][8])

-----------------------------------------------------------------------------
(* C15: the descriptor a connect_volume of any of the five drivers returns
   has source_type 'block' or 'file' with source_path set and neither
   source_protocol nor source_host, or source_type 'network' with
   source_protocol and source_host set and no source_path; its format is
   'raw', its cache 'none', its bus 'virtio', and its target_dev the
   requested target device. *)
C15_DescriptorInvariant ==
    \A t \in Threads :
        (InConnect(t) /\ Returned(t)) =>
            /\ \/ /\ conf[t].source_type \in {"block", "file"}
                  /\ conf[t].source_path # None
                  /\ conf[t].source_protocol = None
                  /\ conf[t].source_host = None
               \/ /\ conf[t].source_type = "network"
                  /\ conf[t].source_protocol # None
                  /\ conf[t].source_host # None
                  /\ conf[t].source_path = None
            /\ conf[t].source_type =
                 CASE self = "LibvirtVolumeDriver" -> "block"
                   [] self = "LibvirtISCSIVolumeDriver" -> "block"
                   [] self = "LibvirtNFSVolumeDriver" -> "file"
                   [] OTHER -> "network"
            /\ conf[t].driver_format = "raw"
            /\ conf[t].driver_cache = "none"
            /\ conf[t].target_bus = "virtio"
            /\ conf[t].target_dev = call[t].mount_device

\* The fake driver has returned its network descriptor.
C15_Witness ==
    \E t \in Threads :
        /\ self = "LibvirtFakeVolumeDriver" /\ InConnect(t) /\ Returned(t)
        /\ conf[t].source_type = "network"
        /\ conf[t].source_protocol = "fake"
        /\ conf[t].source_host = "fake"
        /\ conf[t].target_dev = "vdb"

-----------------------------------------------------------------------------
(* C16: when an iSCSI connect_volume returns, the last thing it did was a
   check of the path /dev/disk/by-path/ip-<portal>-iscsi-<iqn>-lun-<lun>
   (lun 0 when the descriptor gives none) that found it to exist, and the
   descriptor has source_type 'block' and that path as source_path. *)
C16_Path(d) ==
    "/dev/disk/by-path/ip-" \o d.target_portal \o "-iscsi-" \o d.target_iqn \o
    "-lun-" \o (IF "target_lun" \in DOMAIN d THEN ToString(d.target_lun) ELSE "0")

C16_ConnectPostcondition ==
    \A t \in Threads :
        (IsISCSI /\ InConnect(t) /\ Returned(t)) =>
            LET path == C16_Path(call[t].connection_info.data)
                last == log[t][Len(log[t])]
            IN  /\ last.cmd = <<"os.path.exists", path>>
                /\ last.code = 0
                /\ conf[t].source_type = "block"
                /\ conf[t].source_path = path

\* A connect_volume whose descriptor gives no LUN has returned the path of
\* LUN 0, found after a rescan.
C16_Witness ==
    \E t \in Threads :
        /\ IsISCSI /\ InConnect(t) /\ Returned(t)
        /\ "target_lun" \notin DOMAIN call[t].connection_info.data
        /\ Rescans(t) = 1
        /\ conf[t].source_path =
             "/dev/disk/by-path/ip-10.0.0.5:3260-iscsi-iqn.2010-10.org.example:vol1-lun-0"

-----------------------------------------------------------------------------
(* C17: in the device-wait loop of iSCSI connect_volume every rescan is
   followed by a backoff of attempt^2 before the next check, so that a call
   that has ended has slept 1, 4, ..., k^2 for its k rescans; a call that
   returns has issued its rescans before the first check that found the
   path, at most num_iscsi_scan_tries of them, each after a failed check. *)
C17_FirstSeen(t) ==
    CHOOSE i \in Indexes(t) :
        /\ IsExists(log[t][i]) /\ log[t][i].code = 0
        /\ \A j \in 1..(i - 1) : IsExists(log[t][j]) => log[t][j].code = 1

C17_RescansBefore(t, i) ==
    Cardinality({j \in 1..(i - 1) : IsRescan(log[t][j])})

C17_Ended(t) ==
    /\ IsISCSI /\ InConnect(t)
    /\ Returned(t) \/ (Raised(t) /\ exc[t].type = "NovaException")

C17_RescanThenBackoff ==
    \A t \in Threads :
        C17_Ended(t) =>
            /\ SleepsOf(t) = Squares(Rescans(t))
            /\ \A i \in Indexes(t) :
                 IsRescan(log[t][i]) =>
                    IsExists(log[t][i - 1]) /\ log[t][i - 1].code = 1
            /\ Returned(t) =>
                 /\ Rescans(t) <= CONF.num_iscsi_scan_tries
                 /\ Rescans(t) = C17_RescansBefore(t, C17_FirstSeen(t))

(* C17 as amended: a failed check of the loop condition, the budget not
   spent, is followed by exactly one rescan and a second check of the path;
   a backoff of attempt^2 follows only if the second check fails too, and
   then the loop condition is checked again; so a call that has ended has
   slept 1, 4, ... for each of its k rescans but, when it returns after a
   rescan that brought the path, the last; a call that returns has issued
   its rescans before the first check that found the path, at most
   num_iscsi_scan_tries of them. *)
C17_Next(t, i) == log[t][i + 1]

C17_WaitLoop ==
    \A t \in Threads :
        (IsISCSI /\ InConnect(t)) =>
            /\ \A i \in Indexes(t) :
                LET e == log[t][i]
                    recheck == i > 1 /\ IsRescan(log[t][i - 1])
                IN  /\ (IsRescan(e) /\ i < Len(log[t])) =>
                          e.code = 0 /\ IsExists(C17_Next(t, i))
                    /\ IsRescan(e) =>
                          /\ IsExists(log[t][i - 1]) /\ log[t][i - 1].code = 1
                          /\ ~IsRescan(log[t][i - 2])
                          /\ C17_RescansBefore(t, i) < CONF.num_iscsi_scan_tries
                    /\ (IsExists(e) /\ e.code = 1 /\ ~recheck /\ i < Len(log[t])) =>
                          IsRescan(C17_Next(t, i))
                    /\ (IsExists(e) /\ e.code = 1 /\ recheck /\ i < Len(log[t])) =>
                          /\ IsSleep(C17_Next(t, i))
                          /\ C17_Next(t, i).code =
                               C17_RescansBefore(t, i) * C17_RescansBefore(t, i)
                    /\ (IsExists(e) /\ e.code = 0 /\ recheck /\ i < Len(log[t])) =>
                          IsExists(C17_Next(t, i))
                    /\ IsSleep(e) =>
                          /\ IsExists(log[t][i - 1]) /\ log[t][i - 1].code = 1
                          /\ IsRescan(log[t][i - 2])
                          /\ i < Len(log[t]) => IsExists(C17_Next(t, i))
            /\ C17_Ended(t) =>
                 \/ SleepsOf(t) = Squares(Rescans(t))
                 \/ /\ Returned(t) /\ Rescans(t) > 0
                    /\ SleepsOf(t) = Squares(Rescans(t) - 1)
            /\ (Raised(t) /\ exc[t].type = "NovaException") =>
                 Rescans(t) = CONF.num_iscsi_scan_tries
            /\ Returned(t) =>
                 /\ Rescans(t) <= CONF.num_iscsi_scan_tries
                 /\ Rescans(t) = C17_RescansBefore(t, C17_FirstSeen(t))

\* Two rescans: the path is missed after the first (a sleep of 1) and found
\* after the second, so that no second sleep is made; the call returns.
C17_Witness ==
    \E t \in Threads :
        /\ IsISCSI /\ InConnect(t) /\ Returned(t)
        /\ CONF.num_iscsi_scan_tries = 2
        /\ Rescans(t) = 2
        /\ SleepsOf(t) = <<1>>

-----------------------------------------------------------------------------
(* C18: whatever iSCSI connect_volume and disconnect_volume calls the
   threads of the process make on a target, the step in which a
   connect_volume issues --login finds the node record of its target there,
   and from the record query to the login no other thread is inside a
   connect_volume or disconnect_volume. *)
C18_RecordAtLogin ==
    [][\A t \in Threads :
        (/\ IsISCSI /\ pc[t] = "login"
         /\ Len(log'[t]) = Len(log[t]) + 1
         /\ IsLogin(log'[t][Len(log'[t])]))
        => /\ node[TargetOfCall(t)].exists
           /\ \A u \in Threads \ {t} : ~InBody(u)]_vars

\* A connect_volume has just logged in, on a record a disconnect_volume of
\* another thread, now waiting for the lock, would delete.
C18_Witness ==
    \E t, u \in Threads :
        /\ t # u /\ IsISCSI
        /\ InConnect(t) /\ pc[t] = "startup"
        /\ IsLogin(log[t][Len(log[t])]) /\ log[t][Len(log[t])].code = 0
        /\ pc[u] = "enter" /\ InDisconnect(u)
        /\ devices = {}

-----------------------------------------------------------------------------
(* C19: when a connect_volume for one LUN of a target and a
   disconnect_volume for another LUN of that target are made by two callers
   of one process, at the same time or one after the other, and the
   connect_volume returns, then once both have ended the target has its
   node record and its session, whichever of the two ran first -- given
   that the enumeration answered the disconnect_volume with every device
   node of the target the host had. *)
C19_Ended(t) == pc[t] \in {"done", "over"}

\* The enumeration of the disconnect_volume left out no device node of its
\* target.
C19_AllListed(u) ==
    /\ log[u] # <<>>
    /\ MatchingDevices(log[u][1].visible, Props(u)) \subseteq log[u][1].out

C19_Pair(t, u) ==
    /\ t # u
    /\ C19_Ended(t) /\ C19_Ended(u)
    /\ pc[t] = "over" \/ pc[u] = "over"
    /\ InConnect(t) /\ exc[t] = NoExc
    /\ InDisconnect(u)
    /\ TargetOfCall(t) = TargetOfCall(u)
    /\ host_device(Props(t)) # host_device(Props(u))

C19_SiblingKeepsTarget ==
    \A t, u \in Threads :
        C19_Pair(t, u) /\ C19_AllListed(u)
        => /\ node[TargetOfCall(t)].exists
           /\ TargetOfCall(t) \in sessions

\* The connect_volume ran first: the disconnect_volume that waited for it
\* found the new device node and left the target alone.
C19_Witness ==
    \E t, u \in Threads :
        /\ C19_Pair(t, u) /\ C19_AllListed(u)
        /\ pc[t] = "over" /\ pc[u] = "done"
        /\ \E i \in 1..Len(log[t]) : IsLogin(log[t][i]) /\ log[t][i].code = 0
        /\ log[u][1].visible = {host_device(Props(t))}
        /\ Len(log[u]) = 1

\* The disconnect_volume ran first and tore the target down: the
\* connect_volume that waited for it logged in again.
C19_WitnessTeardownFirst ==
    \E t, u \in Threads :
        /\ C19_Pair(t, u) /\ C19_AllListed(u)
        /\ pc[u] = "over" /\ pc[t] = "done"
        /\ Len(log[u]) = 4 /\ log[u][3].code = 0 /\ log[u][4].code = 0
        /\ \E i \in 1..Len(log[t]) : IsLogin(log[t][i]) /\ log[t][i].code = 0

-----------------------------------------------------------------------------
(* C20: an iSCSI connect_volume or disconnect_volume that has ended by
   raising, on a fatal exit code of iscsiadm or on the device not showing
   up, holds no lock; and a caller that waits for the lock while another
   caller's call has raised goes on into its method. *)
C20_Failed(t) == pc[t] \in {"done", "over"} /\ exc[t] # NoExc

C20_Waits(u) == pc[u] = "enter"

C20_FailedCallFreesLock ==
    /\ [](\A t \in Threads :
            C20_Failed(t) => \A n \in LockNames : locks[n] # t)
    /\ \A t, u \in Threads :
          (t # u /\ C20_Failed(t) /\ C20_Waits(u)) ~> InBody(u)

\* A connect_volume gave up waiting for its device; the caller that waited
\* for the lock meanwhile is now in its method.
C20_Witness ==
    \E t, u \in Threads :
        /\ t # u
        /\ pc[t] = "over" /\ InConnect(t)
        /\ exc[t].type = "NovaException"
        /\ InBody(u) /\ locks[LockNameOf(call[u])] = u

\* A disconnect_volume ended on a fatal exit code of iscsiadm; the caller
\* that waited is in its method.
C20_WitnessFatal ==
    \E t, u \in Threads :
        /\ t # u
        /\ pc[t] = "over" /\ InDisconnect(t)
        /\ exc[t].type = "ProcessExecutionError"
        /\ InBody(u) /\ locks[LockNameOf(call[u])] = u

====
